---- MODULE Spec2Model ----
(***************************************************************************)
(* Model of two components of the dashboard:                               *)
(*   - the settings page shell (menu, swipe, scroll-driven activation with *)
(*     a debounced recomputation), specification Spec / LiveSpec;          *)
(*   - the topology chart's connection-to-graph aggregation, specification *)
(*     AggSpec.                                                            *)
(* Ratios are integer percentages: intersectionRatio 0.3 is 30.            *)
(***************************************************************************)
EXTENDS Integers, Sequences, FiniteSets, TLC

(* ------------------------------ bounds -------------------------------- *)

\* Number of timer ids the platform hands out in one behaviour; every
\* observation event takes one, so it also bounds the number of events.
MaxTimers == 2

\* Longest step by which the clock advances at once.
TickLen == 50

\* Most entries of a visibility map the decision rule is run on by itself.
MaxEntries == 2

\* Most connection records in the store's list.
MaxConns == 2

\* Longest step by which the clock of the chart component advances at once.
ChartTickLen == 150

(* ------------------------- program constants -------------------------- *)

QuietInterval == 100

ActivationThreshold == 30

NoTimer == 0

NoKey == "null"

\* The wait of the debounced chart update.
ChartWait == 300

MenuKeys ==
  {"generalSettings", "backendSettings", "proxySettings", "connectionSettings",
   "overviewSettings"}

\* intersectionRatio values an observation event reports.
Ratios == {0, 25, 30}

menuItems(split) ==
  LET items == <<"generalSettings", "backendSettings", "proxySettings",
                 "connectionSettings">>
  IN IF split THEN Append(items, "overviewSettings")
     ELSE <<"overviewSettings">> \o items

(* ------------------------------- state -------------------------------- *)

VARIABLES
  activeMenuKey,          \* ref: the key of the active menu entry
  splitOverviewPage,      \* store setting read by menuItems
  isMiddleScreen,         \* helper ref: small-screen (scrolling) layout
  lifecycle,              \* "setup" | "mounted" | "unmounted"
  scrollContainerRef,     \* TRUE when the template ref holds the element
  visibilityRatios,       \* Map<MenuKey, number> in insertion order
  updateTimer,            \* handle of the pending debounce timer or NoTimer
  timers,                 \* the platform's timer table: id -> time left
  nextTimerId,            \* the next id setTimeout returns
  intersectionObservers,  \* keys of the registered, running observers
  microtasks,             \* pending nextTick callbacks, oldest first
  staleTimers,            \* history: pending ids that were pending at a
                          \*          replacement of the observed key set
  staleRan,               \* history: such a timer's callback has run
  supersededTimers,       \* history: pending ids that a later scheduling
                          \*          superseded
  supersededRan,          \* history: such a timer's callback has run
  lastRatio,              \* history: key -> ratio of its latest event since
                          \*          the last replacement, 0 when none
  eventMap,               \* history: the map as the latest event left it
  afterEvent,             \* history: what followed the latest event:
                          \*   "quiet" nothing, "touched" a change of the
                          \*   active key by click or swipe, of the layout
                          \*   or of the lifecycle, "replaced" a
                          \*   replacement of the observed key set
  clearedByReplace,       \* history: entries that replacement removed
  sinceEvent,             \* history: time since the latest event, capped at
                          \*          QuietInterval
  inBurst,                \* history: the latest event came less than
                          \*          QuietInterval after the one before it
  runsSinceEvent,         \* history: recomputations since the latest event
  lastWrite,              \* history: what the latest event did to the map:
                          \*   "insert", "overwrite", "delete", "absent"
  activeConnections,      \* store: the live connection records
  connectionsAbsent,      \* TRUE when the store holds no list at all
  aggPc,                  \* sankeyData: "idle" | "loop" | "done"
  connIndex,              \* sankeyData: position of connections.forEach
  nodeMap,                \* Map<string, number>: name -> id, insertion order
  layerMap,               \* Map<string, number>: name -> layer
  nodeIndex,              \* the next node id
  linkMap,                \* Map<string, number>: "s-t" -> count
  sankeyData,             \* the computed value: nodes and links
  tooltip,                \* the node tooltip shown: <<>> or the hovered
                          \*   name and what getNodeTypeName returned for it
  myChart,                \* the chart instance: "none" before onMounted,
                          \*   "alive", "disposed" after onUnmounted
  lastChartCall,          \* the latest call made on the chart instance
  placeholderShown,       \* the rendered v-if of the no-data placeholder
  lastArgs,               \* lodash debounce: the arguments of the latest
                          \*   call not yet passed on, <<>> when none
  timerId,                \* lodash debounce: TRUE when its timer is set
  timerLeft,              \* time until that timer expires
  sinceLastCall,          \* lodash debounce: time since the latest call
  hadChange,              \* history: the watcher of sankeyData has run
  updatesSinceChange,     \* history: runs of updateChartData since the
                          \*   latest run of the watcher
  swipe                   \* history: <<>> or the latest change of the
                          \*   swipe direction: the direction, the dialog,
                          \*   the focus and the selection it met, and the
                          \*   key active before it

pageVars ==
  <<activeMenuKey, splitOverviewPage, isMiddleScreen, lifecycle,
    scrollContainerRef, visibilityRatios, updateTimer, timers, nextTimerId,
    intersectionObservers, microtasks>>

historyVars ==
  <<staleTimers, staleRan, supersededTimers, supersededRan, lastRatio,
    eventMap, afterEvent, clearedByReplace, sinceEvent, inBurst,
    runsSinceEvent, lastWrite>>

aggVars ==
  <<activeConnections, connectionsAbsent, aggPc, connIndex, nodeMap, layerMap,
    nodeIndex, linkMap, sankeyData, tooltip>>

navVars == <<swipe>>

chartVars ==
  <<myChart, lastChartCall, placeholderShown, lastArgs, timerId, timerLeft,
    sinceLastCall, hadChange, updatesSinceChange>>

vars == <<pageVars, historyVars, aggVars, navVars, chartVars>>

(* ------------------------------ helpers ------------------------------- *)

Range(s) == {s[i] : i \in 1..Len(s)}

Keys(map) == {map[i].key : i \in 1..Len(map)}

IndexOfKey(map, k) == CHOOSE i \in 1..Len(map) : map[i].key = k

RatioOf(map, k) == map[IndexOfKey(map, k)].ratio

\* Map.prototype.set: an existing key keeps its position, a new one is appended.
MapSet(map, k, r) ==
  IF k \in Keys(map)
  THEN [i \in 1..Len(map) |-> IF map[i].key = k THEN [key |-> k, ratio |-> r]
                              ELSE map[i]]
  ELSE Append(map, [key |-> k, ratio |-> r])

\* Map.prototype.delete
MapDelete(map, k) == SelectSeq(map, LAMBDA e : e.key # k)

Min(a, b) == IF a <= b THEN a ELSE b

MinLeft(tm) == CHOOSE m \in {tm[i] : i \in DOMAIN tm} :
                 \A i \in DOMAIN tm : m <= tm[i]

\* setTimeout(cb, delay) entered under id
setTimeout(tm, id, delay) ==
  [i \in DOMAIN tm \cup {id} |-> IF i = id THEN delay ELSE tm[i]]

\* clearTimeout(id)
clearTimeout(tm, id) == [i \in DOMAIN tm \ {id} |-> tm[i]]

NoTimerDue == \A i \in DOMAIN timers : timers[i] > 0

\* The event loop takes a task only when no nextTick callback is pending and
\* no timer is due.
Idle == microtasks = <<>> /\ NoTimerDue

(* ---------------------- scroll-driven activation ---------------------- *)

\* As ScanFrom, with >= where the scan compares with >.
RECURSIVE ScanLastWins(_, _, _, _)
ScanLastWins(map, i, maxRatio, mostVisibleKey) ==
  IF i > Len(map) THEN [maxRatio |-> maxRatio, mostVisibleKey |-> mostVisibleKey]
  ELSE IF map[i].ratio >= maxRatio
       THEN ScanLastWins(map, i + 1, map[i].ratio, map[i].key)
       ELSE ScanLastWins(map, i + 1, maxRatio, mostVisibleKey)

\* visibilityRatios.forEach with the running maximum, entries i..Len(map)
RECURSIVE ScanFrom(_, _, _, _)
ScanFrom(map, i, maxRatio, mostVisibleKey) ==
  IF i > Len(map) THEN [maxRatio |-> maxRatio, mostVisibleKey |-> mostVisibleKey]
  ELSE IF map[i].ratio > maxRatio
       THEN ScanFrom(map, i + 1, map[i].ratio, map[i].key)
       ELSE ScanFrom(map, i + 1, maxRatio, mostVisibleKey)

MostVisible(map) == ScanFrom(map, 1, 0, NoKey)

\* As SelectMostVisible, with a visibility that must exceed the threshold.
SelectAboveThreshold(map) ==
  LET found == MostVisible(map)
  IN IF found.mostVisibleKey # NoKey /\ found.maxRatio > ActivationThreshold
     THEN found.mostVisibleKey
     ELSE NoKey

\* The key the recomputation activates, NoKey when it activates none.
SelectMostVisible(map) ==
  LET found == MostVisible(map)
  IN IF found.mostVisibleKey # NoKey /\ found.maxRatio >= ActivationThreshold
     THEN found.mostVisibleKey
     ELSE NoKey

\* As updateActiveMenuByVisibility, with the active key set to whatever the
\* scan found, also when that is nothing.
updateResetsWhenNone(active, map, middle, container) ==
  IF ~middle \/ ~container THEN active
  ELSE SelectMostVisible(map)

\* The value of activeMenuKey after updateActiveMenuByVisibility()
updateActiveMenuByVisibility(active, map, middle, container) ==
  IF ~middle \/ ~container THEN active
  ELSE LET sel == SelectMostVisible(map)
       IN IF sel # NoKey THEN sel ELSE active

\* As debouncedUpdateActiveMenu, without the clearTimeout of the pending timer.
debounceWithoutClear ==
  /\ timers' = setTimeout(timers, nextTimerId, QuietInterval)
  /\ updateTimer' = nextTimerId
  /\ nextTimerId' = nextTimerId + 1

\* debouncedUpdateActiveMenu(): clear the pending timer, start a new one.
debouncedUpdateActiveMenu ==
  LET kept == IF updateTimer # NoTimer THEN clearTimeout(timers, updateTimer)
              ELSE timers
  IN /\ timers' = setTimeout(kept, nextTimerId, QuietInterval)
     /\ updateTimer' = nextTimerId
     /\ nextTimerId' = nextTimerId + 1

\* As RecordRatio, without the delete of a region that left the viewport.
RecordRatioKeepsZero(map, k, r) == MapSet(map, k, r)

\* The observer callback's write to the map.
RecordRatio(map, k, r) == IF r > 0 THEN MapSet(map, k, r) ELSE MapDelete(map, k)

\* As setupIntersectionObservers, without visibilityRatios.value.clear().
setupKeepsRatios(queue, container) ==
  /\ intersectionObservers' = <<>>
  /\ visibilityRatios' = visibilityRatios
  /\ microtasks' = IF ~isMiddleScreen \/ ~container THEN queue
                   ELSE Append(queue, "register")
  /\ UNCHANGED <<updateTimer, timers, nextTimerId>>

\* setupIntersectionObservers(), called with the nextTick queue it appends to.
\* The container element is the one the template ref holds when it runs.
setupIntersectionObservers(queue, container) ==
  /\ intersectionObservers' = <<>>
  /\ visibilityRatios' = <<>>
  /\ microtasks' = IF ~isMiddleScreen \/ ~container THEN queue
                   ELSE Append(queue, "register")
  /\ UNCHANGED <<updateTimer, timers, nextTimerId>>

\* The keys whose region element getItemRef finds: the regions are rendered
\* in the scrolling layout only.
RenderedKeys(split) ==
  IF isMiddleScreen /\ lifecycle = "mounted" THEN menuItems(split) ELSE <<>>

(* --------------------------- menu navigation -------------------------- *)

\* findIndex: 0 stands for -1
getCurrentMenuIndex(items, active) ==
  IF active \in Range(items)
  THEN CHOOSE i \in 1..Len(items) :
         items[i] = active /\ \A j \in 1..(i - 1) : items[j] # active
  ELSE 0

\* handleMenuClick(key): the new active key (the scroll is a DOM effect)
handleMenuClick(key) == key

\* As getNextMenuKey, stopping at the last key.
getNextMenuKeyNoWrap(items, active) ==
  LET currentIndex == getCurrentMenuIndex(items, active) - 1
  IN IF currentIndex = -1 THEN active
     ELSE handleMenuClick(items[Min(currentIndex + 1, Len(items) - 1) + 1])

\* getNextMenuKey(): the active key afterwards
getNextMenuKey(items, active) ==
  LET currentIndex == getCurrentMenuIndex(items, active) - 1
  IN IF currentIndex = -1 THEN active
     ELSE handleMenuClick(items[((currentIndex + 1) % Len(items)) + 1])

\* getPrevMenuKey(): the active key afterwards
getPrevMenuKey(items, active) ==
  LET currentIndex == getCurrentMenuIndex(items, active) - 1
  IN IF currentIndex = -1 THEN active
     ELSE handleMenuClick(
            items[((currentIndex - 1 + Len(items)) % Len(items)) + 1])

Directions == {"left", "right", "up", "down", "none"}

\* As OnSwipe, without the test for selected text.
OnSwipeIgnoresSelection(dir, modalOpen, inputActive, textSelected) ==
  IF ~isMiddleScreen THEN activeMenuKey
  ELSE IF modalOpen \/ inputActive THEN activeMenuKey
  ELSE IF dir = "right"
       THEN getPrevMenuKey(menuItems(splitOverviewPage), activeMenuKey)
  ELSE IF dir = "left"
       THEN getNextMenuKey(menuItems(splitOverviewPage), activeMenuKey)
  ELSE activeMenuKey

\* watch(direction): the active key afterwards
OnSwipe(dir, modalOpen, inputActive, textSelected) ==
  IF ~isMiddleScreen THEN activeMenuKey
  ELSE IF modalOpen \/ inputActive \/ textSelected THEN activeMenuKey
  ELSE IF dir = "right"
       THEN getPrevMenuKey(menuItems(splitOverviewPage), activeMenuKey)
  ELSE IF dir = "left"
       THEN getNextMenuKey(menuItems(splitOverviewPage), activeMenuKey)
  ELSE activeMenuKey

(* ------------------------------ initial ------------------------------- *)

EmptyData == [nodes |-> <<>>, links |-> <<>>]

\* The chart component before sankeyData is computed for the store's list.
AggIdle(connections, absent) ==
  /\ activeConnections = connections
  /\ connectionsAbsent = absent
  /\ aggPc = "idle"
  /\ connIndex = 0
  /\ nodeMap = <<>>
  /\ layerMap = <<>>
  /\ nodeIndex = 0
  /\ linkMap = <<>>
  /\ sankeyData = EmptyData
  /\ tooltip = <<>>

\* The chart component before onMounted, the debounce not yet called; the
\* placeholder is rendered for the graph.
ChartIdle ==
  /\ myChart = "none"
  /\ lastChartCall = [method |-> "none"]
  /\ placeholderShown = (Len(sankeyData.nodes) = 0)
  /\ lastArgs = <<>>
  /\ timerId = FALSE
  /\ timerLeft = 0
  /\ sinceLastCall = 0
  /\ hadChange = FALSE
  /\ updatesSinceChange = 0

NoRatios == [k \in MenuKeys |-> 0]

\* The settings page after its script setup has run.
PageInit ==
  /\ splitOverviewPage \in BOOLEAN
  /\ isMiddleScreen \in BOOLEAN
  /\ activeMenuKey = IF splitOverviewPage THEN "generalSettings"
                     ELSE "overviewSettings"
  /\ lifecycle = "setup"
  /\ scrollContainerRef = FALSE
  /\ visibilityRatios = <<>>
  /\ updateTimer = NoTimer
  /\ timers = <<>>
  /\ nextTimerId = 1
  /\ intersectionObservers = <<>>
  /\ microtasks = <<>>
  /\ swipe = <<>>
  /\ staleTimers = {}
  /\ staleRan = FALSE
  /\ supersededTimers = {}
  /\ supersededRan = FALSE
  /\ lastRatio = NoRatios
  /\ eventMap = <<>>
  /\ afterEvent = "quiet"
  /\ clearedByReplace = 0
  /\ sinceEvent = QuietInterval
  /\ inBurst = FALSE
  /\ runsSinceEvent = 0
  /\ lastWrite = "none"

Init == PageInit /\ AggIdle(<<>>, FALSE) /\ ChartIdle

\* History kept by a replacement of the observed key set.
NoteReplacement ==
  /\ staleTimers' = (staleTimers \cup DOMAIN timers) \cap DOMAIN timers'
  /\ lastRatio' = NoRatios
  /\ eventMap' = <<>>
  /\ afterEvent' = "replaced"
  /\ clearedByReplace' = Len(visibilityRatios)
  /\ lastWrite' = "none"
  /\ UNCHANGED <<staleRan, supersededTimers, supersededRan, sinceEvent,
                 inBurst, runsSinceEvent>>

HistoryUnchanged == UNCHANGED historyVars

\* History kept by a handler that is no event and no replacement.
NoteTouch(changed) ==
  /\ afterEvent' = IF changed /\ afterEvent = "quiet" THEN "touched"
                   ELSE afterEvent
  /\ UNCHANGED <<staleTimers, staleRan, supersededTimers, supersededRan,
                 lastRatio, eventMap, clearedByReplace, sinceEvent, inBurst,
                 runsSinceEvent, lastWrite>>

replacedSinceEvent == afterEvent = "replaced"

\* An observation event has been delivered: each takes a timer id.
HadEvent == nextTimerId > 1

(* ------------------------------ actions ------------------------------- *)

\* onMounted: the template refs are set, the observers are set up.
Mount ==
  /\ UNCHANGED <<aggVars, navVars, chartVars>>
  /\ lifecycle = "setup"
  /\ lifecycle' = "mounted"
  /\ scrollContainerRef' = TRUE
  /\ setupIntersectionObservers(microtasks, TRUE)
  /\ NoteReplacement
  /\ UNCHANGED <<activeMenuKey, splitOverviewPage, isMiddleScreen>>

\* Component unmount: the ref is emptied, the observers stop with the scope,
\* the watchers stop; a pending timer stays in the timer table.
Unmount ==
  /\ UNCHANGED <<aggVars, navVars, chartVars>>
  /\ lifecycle = "mounted"
  /\ Idle
  /\ lifecycle' = "unmounted"
  /\ scrollContainerRef' = FALSE
  /\ intersectionObservers' = <<>>
  /\ NoteTouch(TRUE)
  /\ UNCHANGED <<activeMenuKey, splitOverviewPage, isMiddleScreen,
                 visibilityRatios, updateTimer, timers, nextTimerId, microtasks>>

\* isMiddleScreen changes; the watcher queues the set-up on nextTick.
ChangeScreen ==
  /\ UNCHANGED <<aggVars, navVars, chartVars>>
  /\ lifecycle = "mounted"
  /\ Idle
  /\ isMiddleScreen' = ~isMiddleScreen
  /\ microtasks' = Append(microtasks, "setup")
  /\ NoteTouch(TRUE)
  /\ UNCHANGED <<activeMenuKey, splitOverviewPage, lifecycle, scrollContainerRef,
                 visibilityRatios, updateTimer, timers, nextTimerId,
                 intersectionObservers>>

\* splitOverviewPage changes, so menuItems does; the watcher queues the set-up.
ToggleSplit ==
  /\ UNCHANGED <<aggVars, navVars, chartVars>>
  /\ lifecycle = "mounted"
  /\ Idle
  /\ splitOverviewPage' = ~splitOverviewPage
  /\ microtasks' = Append(microtasks, "setup")
  /\ NoteTouch(TRUE)
  /\ UNCHANGED <<activeMenuKey, isMiddleScreen, lifecycle, scrollContainerRef,
                 visibilityRatios, updateTimer, timers, nextTimerId,
                 intersectionObservers>>

\* nextTick(() => setupIntersectionObservers()) of the watcher
RunSetup ==
  /\ UNCHANGED <<aggVars, navVars, chartVars>>
  /\ microtasks # <<>>
  /\ Head(microtasks) = "setup"
  /\ setupIntersectionObservers(Tail(microtasks), scrollContainerRef)
  /\ NoteReplacement
  /\ UNCHANGED <<activeMenuKey, splitOverviewPage, isMiddleScreen, lifecycle,
                 scrollContainerRef>>

\* nextTick callback of setupIntersectionObservers: one observer per region
RunRegister ==
  /\ UNCHANGED <<aggVars, navVars, chartVars>>
  /\ microtasks # <<>>
  /\ Head(microtasks) = "register"
  /\ microtasks' = Tail(microtasks)
  /\ intersectionObservers' =
       intersectionObservers \o RenderedKeys(splitOverviewPage)
  /\ HistoryUnchanged
  /\ UNCHANGED <<activeMenuKey, splitOverviewPage, isMiddleScreen, lifecycle,
                 scrollContainerRef, visibilityRatios, updateTimer, timers,
                 nextTimerId>>

\* The observer callback of region k reporting ratio r.
Observe(k, r) ==
  /\ UNCHANGED <<aggVars, navVars, chartVars>>
  /\ lifecycle = "mounted"
  /\ Idle
  /\ k \in Range(intersectionObservers)
  /\ nextTimerId <= MaxTimers
  /\ visibilityRatios' = RecordRatio(visibilityRatios, k, r)
  /\ debouncedUpdateActiveMenu
  /\ lastRatio' = [lastRatio EXCEPT ![k] = r]
  /\ eventMap' = visibilityRatios'
  /\ afterEvent' = "quiet"
  /\ clearedByReplace' = 0
  /\ sinceEvent' = 0
  /\ inBurst' = (HadEvent /\ sinceEvent < QuietInterval)
  /\ runsSinceEvent' = 0
  /\ lastWrite' = IF k \in Keys(visibilityRatios)
                  THEN (IF r > 0 THEN "overwrite" ELSE "delete")
                  ELSE (IF r > 0 THEN "insert" ELSE "absent")
  /\ supersededTimers' = (supersededTimers \cup DOMAIN timers) \cap
                            (DOMAIN timers' \ {updateTimer'})
  /\ staleTimers' = staleTimers \cap DOMAIN timers'
  /\ UNCHANGED <<staleRan, supersededRan>>
  /\ UNCHANGED <<activeMenuKey, splitOverviewPage, isMiddleScreen, lifecycle,
                 scrollContainerRef, intersectionObservers, microtasks>>

\* The clock advances, never past a due timer.
Tick ==
  /\ UNCHANGED <<aggVars, navVars, chartVars>>
  /\ DOMAIN timers # {}
  /\ NoTimerDue
  /\ LET d == Min(TickLen, MinLeft(timers))
     IN /\ timers' = [i \in DOMAIN timers |-> timers[i] - d]
        /\ sinceEvent' = Min(QuietInterval, sinceEvent + d)
  /\ UNCHANGED <<staleTimers, staleRan, supersededTimers, supersededRan,
                 lastRatio, eventMap, afterEvent, clearedByReplace,
                 inBurst, runsSinceEvent, lastWrite>>
  /\ UNCHANGED <<activeMenuKey, splitOverviewPage, isMiddleScreen, lifecycle,
                 scrollContainerRef, visibilityRatios, updateTimer, nextTimerId,
                 intersectionObservers, microtasks>>

\* The timer callback of debouncedUpdateActiveMenu runs for the due timer id.
FireTimer(id) ==
  /\ UNCHANGED <<aggVars, navVars, chartVars>>
  /\ microtasks = <<>>
  /\ id \in DOMAIN timers
  /\ timers[id] = 0
  /\ timers' = clearTimeout(timers, id)
  /\ activeMenuKey' = updateActiveMenuByVisibility(
                        activeMenuKey, visibilityRatios, isMiddleScreen,
                        scrollContainerRef)
  /\ updateTimer' = NoTimer
  /\ staleRan' = (staleRan \/ id \in staleTimers)
  /\ supersededRan' = (supersededRan \/ id \in supersededTimers)
  /\ staleTimers' = staleTimers \ {id}
  /\ supersededTimers' = supersededTimers \ {id}
  /\ runsSinceEvent' = runsSinceEvent + 1
  /\ UNCHANGED <<lastRatio, eventMap, afterEvent, clearedByReplace,
                 sinceEvent, inBurst, lastWrite>>
  /\ UNCHANGED <<splitOverviewPage, isMiddleScreen, lifecycle, scrollContainerRef,
                 visibilityRatios, nextTimerId, intersectionObservers, microtasks>>

\* @click="handleMenuClick(item.key)"
Click(k) ==
  /\ UNCHANGED <<aggVars, navVars, chartVars>>
  /\ lifecycle = "mounted"
  /\ Idle
  /\ k \in Range(menuItems(splitOverviewPage))
  /\ activeMenuKey' = handleMenuClick(k)
  /\ NoteTouch(activeMenuKey' # activeMenuKey)
  /\ UNCHANGED <<splitOverviewPage, isMiddleScreen, lifecycle, scrollContainerRef,
                 visibilityRatios, updateTimer, timers, nextTimerId,
                 intersectionObservers, microtasks>>

\* The swipe direction changes: watch(direction) leaves newKey active.
Swipe(newKey) ==
  /\ UNCHANGED <<aggVars, navVars, chartVars>>
  /\ lifecycle = "mounted"
  /\ Idle
  /\ activeMenuKey' = newKey
  /\ NoteTouch(activeMenuKey' # activeMenuKey)
  /\ UNCHANGED <<splitOverviewPage, isMiddleScreen, lifecycle, scrollContainerRef,
                 visibilityRatios, updateTimer, timers, nextTimerId,
                 intersectionObservers, microtasks>>

\* What watch(direction) can leave active, over every direction and every
\* state of the dialog, the focus and the selection.
SwipeOutcomes ==
  {OnSwipe(dir, modalOpen, inputActive, textSelected) :
     dir \in Directions, modalOpen \in BOOLEAN, inputActive \in BOOLEAN,
     textSelected \in BOOLEAN}

ObserveAny == \E k \in MenuKeys, r \in Ratios : Observe(k, r)

FireAny == \E id \in DOMAIN timers : FireTimer(id)

ClickAny == \E k \in MenuKeys : Click(k)

SwipeAny == \E newKey \in SwipeOutcomes : Swipe(newKey)

Next ==
  \/ Mount
  \/ Unmount
  \/ ChangeScreen
  \/ ToggleSplit
  \/ RunSetup
  \/ RunRegister
  \/ ObserveAny
  \/ Tick
  \/ FireAny
  \/ ClickAny
  \/ SwipeAny

Spec == Init /\ [][Next]_vars

\* The clock advances, and the event loop runs pending nextTick callbacks
\* and due timer callbacks.
LiveSpec ==
  /\ Spec
  /\ WF_vars(Tick)
  /\ WF_vars(FireAny)
  /\ WF_vars(RunSetup)
  /\ WF_vars(RunRegister)

(* ------------------- the decision rule by itself ---------------------- *)

\* Ratios of the maps the decision rule is run on.
DecisionRatios == {25, 30, 35, 50}

\* The maps of at most n entries: distinct keys in any insertion order.
RECURSIVE MapsUpTo(_)
MapsUpTo(n) ==
  IF n = 0 THEN {<<>>}
  ELSE MapsUpTo(n - 1) \cup
       {Append(m, [key |-> k, ratio |-> r]) :
          m \in {x \in MapsUpTo(n - 1) : Len(x) = n - 1},
          k \in MenuKeys, r \in DecisionRatios}

DistinctKeys(map) == Cardinality(Keys(map)) = Len(map)

\* The page in the scrolling layout, its latest event delivered a quiet
\* interval ago, the recomputation due; the map is any map of distinct keys.
DecisionInit ==
  /\ splitOverviewPage \in BOOLEAN
  /\ isMiddleScreen = TRUE
  /\ activeMenuKey = IF splitOverviewPage THEN "generalSettings"
                     ELSE "overviewSettings"
  /\ lifecycle = "mounted"
  /\ scrollContainerRef = TRUE
  /\ visibilityRatios \in {m \in MapsUpTo(MaxEntries) : DistinctKeys(m)}
  /\ nextTimerId = IF visibilityRatios = <<>> THEN 2
                   ELSE Len(visibilityRatios) + 1
  /\ updateTimer = nextTimerId - 1
  /\ timers = [i \in {updateTimer} |-> 0]
  /\ intersectionObservers = menuItems(splitOverviewPage)
  /\ microtasks = <<>>
  /\ swipe = <<>>
  /\ staleTimers = {}
  /\ staleRan = FALSE
  /\ supersededTimers = {}
  /\ supersededRan = FALSE
  /\ lastRatio = [k \in MenuKeys |->
                    IF k \in Keys(visibilityRatios)
                    THEN RatioOf(visibilityRatios, k) ELSE 0]
  /\ eventMap = visibilityRatios
  /\ afterEvent = "quiet"
  /\ clearedByReplace = 0
  /\ sinceEvent = QuietInterval
  /\ inBurst = (Len(visibilityRatios) > 1)
  /\ runsSinceEvent = 0
  /\ lastWrite = IF visibilityRatios = <<>> THEN "absent" ELSE "insert"
  /\ AggIdle(<<>>, FALSE)
  /\ ChartIdle

DecisionNext == FireAny

DecisionSpec == DecisionInit /\ [][DecisionNext]_vars

(* ------------------------- swipe navigation --------------------------- *)

\* document.activeElement: none, or the tag of the focused element.
ActiveElements == {"none", "BODY", "INPUT", "TEXTAREA"}

\* isInputActive()
isInputActive(activeEl) ==
  activeEl # "none" /\ (activeEl = "INPUT" \/ activeEl = "TEXTAREA")

\* The value of the direction ref of useSwipe.
direction == IF swipe = <<>> THEN "none" ELSE swipe.direction

\* The direction ref changes to dir and watch(direction) runs, with a modal
\* dialog open or not, the focus on activeEl and text selected or not.
SwipeTo(dir, modalOpen, activeEl, textSelected) ==
  /\ UNCHANGED <<aggVars, chartVars>>
  /\ lifecycle = "mounted"
  /\ Idle
  /\ dir # direction
  /\ activeMenuKey' =
       OnSwipe(dir, modalOpen, isInputActive(activeEl), textSelected)
  /\ swipe' = [direction |-> dir, modalOpen |-> modalOpen,
               activeEl |-> activeEl, textSelected |-> textSelected,
               from |-> activeMenuKey]
  /\ NoteTouch(activeMenuKey' # activeMenuKey)
  /\ UNCHANGED <<splitOverviewPage, isMiddleScreen, lifecycle, scrollContainerRef,
                 visibilityRatios, updateTimer, timers, nextTimerId,
                 intersectionObservers, microtasks>>

SwipeToAny ==
  \E dir \in Directions, modalOpen \in BOOLEAN, activeEl \in ActiveElements,
     textSelected \in BOOLEAN :
    SwipeTo(dir, modalOpen, activeEl, textSelected)

\* The page with the changes of the swipe direction kept, and no observation
\* events.
NavNext ==
  \/ Mount
  \/ ChangeScreen
  \/ ToggleSplit
  \/ RunSetup
  \/ RunRegister
  \/ ClickAny
  \/ SwipeToAny

NavSpec == Init /\ [][NavNext]_vars

(* ---------------------- flow graph aggregation ------------------------ *)

layerColors == <<"#5470c6", "#91cc75", "#fac858", "#ee6666">>

\* The connection records the store's list is drawn from.
SourceIPs == {"", "a"}

Rules == {"a", "b"}

RulePayloads == {"", "p"}

Chains == {<<>>, <<"a">>, <<"b", "a">>, <<"Unknown", "b">>}

Connections ==
  [sourceIP : SourceIPs, rule : Rules, rulePayload : RulePayloads,
   chains : Chains]

RECURSIVE ListsUpTo(_)
ListsUpTo(n) ==
  IF n = 0 THEN {<<>>}
  ELSE ListsUpTo(n - 1) \cup
       {Append(l, c) : l \in {x \in ListsUpTo(n - 1) : Len(x) = n - 1},
                       c \in Connections}

\* conn.metadata.sourceIP || 'Unknown'
sourceIPOf(conn) == IF conn.sourceIP = "" THEN "Unknown" ELSE conn.sourceIP

\* conn.rulePayload ? `${conn.rule}: ${conn.rulePayload}` : conn.rule
rulePayloadOf(conn) ==
  IF conn.rulePayload # "" THEN conn.rule \o ": " \o conn.rulePayload
  ELSE conn.rule

chainLastOf(conn) == conn.chains[Len(conn.chains)]

chainFirstOf(conn) == conn.chains[1]

\* Map.prototype.has / get / set on a map kept as its entries in insertion
\* order, each entry a pair <<key, value>>.
Has(m, k) == \E i \in 1..Len(m) : m[i][1] = k

Get(m, k) == m[CHOOSE i \in 1..Len(m) : m[i][1] = k][2]

Put(m, k, v) ==
  IF Has(m, k)
  THEN [i \in 1..Len(m) |-> IF m[i][1] = k THEN <<k, v>> ELSE m[i]]
  ELSE Append(m, <<k, v>>)

\* As addNode, with the layer set again for a name that has a node.
addNodeRelayers(maps, name, layer) ==
  IF ~Has(maps.nodeMap, name)
  THEN [nodeMap |-> Put(maps.nodeMap, name, maps.nodeIndex),
        layerMap |-> Put(maps.layerMap, name, layer),
        nodeIndex |-> maps.nodeIndex + 1,
        id |-> maps.nodeIndex]
  ELSE [nodeMap |-> maps.nodeMap,
        layerMap |-> Put(maps.layerMap, name, layer),
        nodeIndex |-> maps.nodeIndex,
        id |-> Get(maps.nodeMap, name)]

\* As addNode, without the test for a name that has a node.
addNodeAlways(maps, name, layer) ==
  [nodeMap |-> Put(maps.nodeMap, name, maps.nodeIndex),
   layerMap |-> Put(maps.layerMap, name, layer),
   nodeIndex |-> maps.nodeIndex + 1,
   id |-> maps.nodeIndex]

\* addNode(name, layer) on the maps and the counter; id is what it returns.
addNode(maps, name, layer) ==
  IF ~Has(maps.nodeMap, name)
  THEN [nodeMap |-> Put(maps.nodeMap, name, maps.nodeIndex),
        layerMap |-> Put(maps.layerMap, name, layer),
        nodeIndex |-> maps.nodeIndex + 1,
        id |-> maps.nodeIndex]
  ELSE [nodeMap |-> maps.nodeMap,
        layerMap |-> maps.layerMap,
        nodeIndex |-> maps.nodeIndex,
        id |-> Get(maps.nodeMap, name)]

DigitChars == <<"0", "1", "2", "3", "4", "5", "6", "7", "8", "9">>

\* A number in a template literal: its decimal digits.
RECURSIVE ToStr(_)
ToStr(n) ==
  IF n < 10 THEN <<DigitChars[n + 1]>>
  ELSE ToStr(n \div 10) \o <<DigitChars[(n % 10) + 1]>>

\* `${a}-${b}`
linkKey(a, b) == ToStr(a) \o <<"-">> \o ToStr(b)

\* String.prototype.split(sep) of a string kept as its characters
RECURSIVE SplitFrom(_, _, _, _)
SplitFrom(str, sep, i, part) ==
  IF i > Len(str) THEN <<part>>
  ELSE IF str[i] = sep THEN <<part>> \o SplitFrom(str, sep, i + 1, <<>>)
  ELSE SplitFrom(str, sep, i + 1, Append(part, str[i]))

Split(str, sep) == SplitFrom(str, sep, 1, <<>>)

\* Number(str) of a string of decimal digits
RECURSIVE ToNumber(_)
ToNumber(str) ==
  IF str = <<>> THEN 0
  ELSE ToNumber(SubSeq(str, 1, Len(str) - 1)) * 10
       + (CHOOSE d \in 0..9 : DigitChars[d + 1] = str[Len(str)])

\* As Increment, with the count set to 1 whatever it was.
IncrementResets(m, link) == Put(m, link, 1)

\* linkMap.set(link, (linkMap.get(link) || 0) + 1)
Increment(m, link) == Put(m, link, (IF Has(m, link) THEN Get(m, link) ELSE 0) + 1)

\* Array.from(nodeMap.entries()).map(...)
nodesOf(nm, lm) ==
  [i \in 1..Len(nm) |->
     [id |-> nm[i][2], name |-> nm[i][1],
      color |-> layerColors[(IF Has(lm, nm[i][1]) THEN Get(lm, nm[i][1])
                             ELSE 0) + 1]]]

\* Array.from(linkMap.entries()).map(...)
linksOf(lkm) ==
  [i \in 1..Len(lkm) |->
     LET parts == Split(lkm[i][1], "-")
     IN [source |-> ToNumber(parts[1]), target |-> ToNumber(parts[2]),
         value |-> lkm[i][2]]]

\* As chainsEmpty, with a chain of one hop taken for no chain.
chainsShort(conn) == Len(conn.chains) <= 1

\* chains.length === 0: the record is skipped
chainsEmpty(conn) == Len(conn.chains) = 0

\* The chart component with the store holding any list of records, or none.
AggInit ==
  /\ PageInit
  /\ splitOverviewPage = FALSE
  /\ isMiddleScreen = FALSE
  /\ \/ \E l \in ListsUpTo(MaxConns) : AggIdle(l, FALSE)
     \/ AggIdle(<<>>, TRUE)
  /\ ChartIdle

\* sankeyData is evaluated: the guard for no connections, else the maps.
AggBegin ==
  /\ aggPc = "idle"
  /\ IF connectionsAbsent \/ Len(activeConnections) = 0
     THEN /\ aggPc' = "done"
          /\ connIndex' = connIndex
     ELSE /\ aggPc' = "loop"
          /\ connIndex' = 1
  /\ sankeyData' = EmptyData
  /\ nodeMap' = <<>>
  /\ layerMap' = <<>>
  /\ nodeIndex' = 0
  /\ linkMap' = <<>>
  /\ UNCHANGED <<activeConnections, connectionsAbsent, tooltip>>
  /\ UNCHANGED <<pageVars, historyVars, navVars, chartVars>>

\* The connections.forEach callback for one record, on the maps and the
\* counter: what it leaves them as.
forEachConnection(maps, conn) ==
  IF chainsEmpty(conn) THEN maps
  ELSE LET maps0 == [nodeMap |-> maps.nodeMap, layerMap |-> maps.layerMap,
                     nodeIndex |-> maps.nodeIndex]
           sourceNode == addNode(maps0, sourceIPOf(conn), 0)
           ruleNode == addNode(sourceNode, rulePayloadOf(conn), 1)
           chainLastNode == addNode(ruleNode, chainLastOf(conn), 2)
           chainFirstNode == addNode(chainLastNode, chainFirstOf(conn), 3)
           link1 == linkKey(sourceNode.id, ruleNode.id)
           link2 == linkKey(ruleNode.id, chainLastNode.id)
           link3 == linkKey(chainLastNode.id, chainFirstNode.id)
       IN [nodeMap |-> chainFirstNode.nodeMap,
           layerMap |-> chainFirstNode.layerMap,
           nodeIndex |-> chainFirstNode.nodeIndex,
           linkMap |-> Increment(Increment(Increment(maps.linkMap, link1),
                                           link2), link3)]

\* One call of the connections.forEach callback.
AggRecord ==
  /\ aggPc = "loop"
  /\ connIndex <= Len(activeConnections)
  /\ LET after == forEachConnection(
                    [nodeMap |-> nodeMap, layerMap |-> layerMap,
                     nodeIndex |-> nodeIndex, linkMap |-> linkMap],
                    activeConnections[connIndex])
     IN /\ nodeMap' = after.nodeMap
        /\ layerMap' = after.layerMap
        /\ nodeIndex' = after.nodeIndex
        /\ linkMap' = after.linkMap
  /\ connIndex' = connIndex + 1
  /\ UNCHANGED <<activeConnections, connectionsAbsent, aggPc, sankeyData,
                 tooltip>>
  /\ UNCHANGED <<pageVars, historyVars, navVars, chartVars>>

\* The node and link lists are built and returned.
AggFinish ==
  /\ aggPc = "loop"
  /\ connIndex > Len(activeConnections)
  /\ sankeyData' = [nodes |-> nodesOf(nodeMap, layerMap),
                    links |-> linksOf(linkMap)]
  /\ aggPc' = "done"
  /\ UNCHANGED <<activeConnections, connectionsAbsent, connIndex, nodeMap,
                 layerMap, nodeIndex, linkMap, tooltip>>
  /\ UNCHANGED <<pageVars, historyVars, navVars, chartVars>>

\* What t(key) stands for: the message key.
t(key) == key

\* No return in the body of the loop over the connections.
NoMatch == "continue"

\* As matchConnection, without the test that skips a record with no chain.
matchConnectionNoSkip(conn, name) ==
  IF name = sourceIPOf(conn) THEN t("sourceIPAddress")
  ELSE IF name = rulePayloadOf(conn) THEN t("ruleMatch")
  ELSE IF Len(conn.chains) = 0 THEN NoMatch
  ELSE IF name = chainLastOf(conn) THEN t("proxyChainEntry")
  ELSE IF name = chainFirstOf(conn) THEN t("proxyChainExit")
  ELSE NoMatch

\* As matchConnection, with the first hop tested before the last.
matchConnectionFirstHopFirst(conn, name) ==
  IF Len(conn.chains) = 0 THEN NoMatch
  ELSE IF name = sourceIPOf(conn) THEN t("sourceIPAddress")
  ELSE IF name = rulePayloadOf(conn) THEN t("ruleMatch")
  ELSE IF name = chainFirstOf(conn) THEN t("proxyChainExit")
  ELSE IF name = chainLastOf(conn) THEN t("proxyChainEntry")
  ELSE NoMatch

\* The body of the loop of getNodeTypeName for one record: what it returns,
\* or NoMatch when it goes on to the next record.
matchConnection(conn, name) ==
  IF Len(conn.chains) = 0 THEN NoMatch
  ELSE IF name = sourceIPOf(conn) THEN t("sourceIPAddress")
  ELSE IF name = rulePayloadOf(conn) THEN t("ruleMatch")
  ELSE IF name = chainLastOf(conn) THEN t("proxyChainEntry")
  ELSE IF name = chainFirstOf(conn) THEN t("proxyChainExit")
  ELSE NoMatch

\* As ScanConnections, giving up after the record it starts with.
ScanFirstOnly(connections, i, name) ==
  IF i > Len(connections) THEN t("unknown")
  ELSE LET found == matchConnection(connections[i], name)
       IN IF found # NoMatch THEN found ELSE t("unknown")

\* for (const conn of connections), from the i-th record on
RECURSIVE ScanConnections(_, _, _)
ScanConnections(connections, i, name) ==
  IF i > Len(connections) THEN t("unknown")
  ELSE LET found == matchConnection(connections[i], name)
       IN IF found # NoMatch THEN found
          ELSE ScanConnections(connections, i + 1, name)

\* getNodeTypeName(name) on the store's list
getNodeTypeName(connections, absent, name) ==
  IF absent \/ Len(connections) = 0 THEN t("unknown")
  ELSE ScanConnections(connections, 1, name)

\* The names a tooltip is asked for: those the records yield and one that
\* no record yields.
HoverNames == {"a", "b", "Unknown", "a: p", "b: p", "gone"}

\* The tooltip formatter runs for a node of the given name.
Hover(name) ==
  /\ aggPc = "done"
  /\ tooltip' = [name |-> name,
                 nodeType |-> getNodeTypeName(activeConnections,
                                              connectionsAbsent, name)]
  /\ UNCHANGED <<activeConnections, connectionsAbsent, aggPc, connIndex,
                 nodeMap, layerMap, nodeIndex, linkMap, sankeyData>>
  /\ UNCHANGED <<pageVars, historyVars, navVars, chartVars>>

HoverAny == \E name \in HoverNames : Hover(name)

\* connections.forEach from the i-th record on
RECURSIVE ForEachFrom(_, _, _)
ForEachFrom(maps, connections, i) ==
  IF i > Len(connections) THEN maps
  ELSE ForEachFrom(forEachConnection(maps, connections[i]), connections, i + 1)

\* The value of the computed sankeyData for the store's list.
sankeyDataOf(connections, absent) ==
  IF absent \/ Len(connections) = 0 THEN EmptyData
  ELSE LET maps == ForEachFrom([nodeMap |-> <<>>, layerMap |-> <<>>,
                                nodeIndex |-> 0, linkMap |-> <<>>],
                               connections, 1)
       IN [nodes |-> nodesOf(maps.nodeMap, maps.layerMap),
           links |-> linksOf(maps.linkMap)]

AggNext ==
  \/ AggBegin
  \/ AggRecord
  \/ AggFinish
  \/ HoverAny

AggSpec == AggInit /\ [][AggNext]_vars

(* ------------------------- debounced chart update --------------------- *)

\* Records the store's list is made of while the chart is mounted: one
\* without a chain and two with one.
NoChainConn ==
  [sourceIP |-> "a", rule |-> "a", rulePayload |-> "", chains |-> <<>>]

OneHopConn ==
  [sourceIP |-> "a", rule |-> "b", rulePayload |-> "", chains |-> <<"a">>]

TwoHopConn ==
  [sourceIP |-> "", rule |-> "a", rulePayload |-> "p",
   chains |-> <<"b", "a">>]

\* What the store holds from one change to the next: no list, an empty
\* list, and lists of these records.
Stores ==
  {[list |-> <<>>, absent |-> TRUE],
   [list |-> <<>>, absent |-> FALSE],
   [list |-> <<NoChainConn>>, absent |-> FALSE],
   [list |-> <<OneHopConn>>, absent |-> FALSE],
   [list |-> <<NoChainConn, TwoHopConn>>, absent |-> FALSE],
   [list |-> <<OneHopConn, TwoHopConn>>, absent |-> FALSE]}

\* myChart.setOption(options.value): the whole option, with the graph
OptionsCall(data) ==
  [method |-> "setOption(options)", data |-> data.nodes, links |-> data.links]

\* As updateChartData, with nothing done for a graph without nodes but the
\* call before repeated.
updateChartDataKeepsOnEmpty(newData) ==
  IF Len(newData.nodes) > 0
  THEN [method |-> "setOption(series)", data |-> newData.nodes,
        links |-> newData.links]
  ELSE lastChartCall

\* The function given to debounce: the call it makes on myChart.
updateChartData(newData) ==
  IF Len(newData.nodes) > 0
  THEN [method |-> "setOption(series)", data |-> newData.nodes,
        links |-> newData.links]
  ELSE [method |-> "clear"]

\* The chart component after its set-up, for any state of the store.
ChartInit ==
  /\ PageInit
  /\ splitOverviewPage = FALSE
  /\ isMiddleScreen = FALSE
  /\ \E st \in Stores :
       /\ activeConnections = st.list
       /\ connectionsAbsent = st.absent
       /\ sankeyData = sankeyDataOf(st.list, st.absent)
  /\ aggPc = "done"
  /\ connIndex = 0
  /\ nodeMap = <<>>
  /\ layerMap = <<>>
  /\ nodeIndex = 0
  /\ linkMap = <<>>
  /\ tooltip = <<>>
  /\ ChartIdle

\* onMounted: the chart is created and given the options; the watcher of
\* sankeyData is set up.
ChartMount ==
  /\ myChart = "none"
  /\ myChart' = "alive"
  /\ lastChartCall' = OptionsCall(sankeyData)
  /\ UNCHANGED <<placeholderShown, lastArgs, timerId, timerLeft,
                 sinceLastCall, hadChange, updatesSinceChange>>
  /\ UNCHANGED <<pageVars, historyVars, aggVars, navVars>>

\* The store's list changes: sankeyData is computed anew, the template is
\* rendered, and the watcher calls the debounced updateChartData, which
\* keeps the arguments and the time of the call and sets its timer when it
\* has none.
StoreChange(st) ==
  /\ myChart = "alive"
  /\ timerId => timerLeft > 0
  /\ activeConnections' = st.list
  /\ connectionsAbsent' = st.absent
  /\ sankeyData' = sankeyDataOf(st.list, st.absent)
  /\ placeholderShown' = (Len(sankeyData'.nodes) = 0)
  /\ lastArgs' = sankeyData'
  /\ sinceLastCall' = 0
  /\ timerId' = TRUE
  /\ timerLeft' = IF timerId THEN timerLeft ELSE ChartWait
  /\ hadChange' = TRUE
  /\ updatesSinceChange' = 0
  /\ UNCHANGED <<myChart, lastChartCall>>
  /\ UNCHANGED <<aggPc, connIndex, nodeMap, layerMap, nodeIndex, linkMap,
                 tooltip>>
  /\ UNCHANGED <<pageVars, historyVars, navVars>>

StoreChangeAny == \E st \in Stores : StoreChange(st)

\* Time passes for the debounce, never beyond the expiry of its timer.
ChartTick ==
  /\ timerId
  /\ timerLeft > 0
  /\ LET d == Min(ChartTickLen, timerLeft)
     IN /\ timerLeft' = timerLeft - d
        /\ sinceLastCall' = sinceLastCall + d
  /\ UNCHANGED <<myChart, lastChartCall, placeholderShown, lastArgs, timerId,
                 hadChange, updatesSinceChange>>
  /\ UNCHANGED <<pageVars, historyVars, aggVars, navVars>>

\* lodash debounce, timerExpired: when the wait has passed since the latest
\* call, the trailing edge passes the kept arguments to updateChartData;
\* else the timer is set again for the rest of the wait.
timerExpired ==
  /\ timerId
  /\ timerLeft = 0
  /\ IF sinceLastCall >= ChartWait
     THEN /\ timerId' = FALSE
          /\ timerLeft' = 0
          /\ IF lastArgs # <<>>
             THEN /\ lastChartCall' = updateChartData(lastArgs)
                  /\ lastArgs' = <<>>
                  /\ updatesSinceChange' = updatesSinceChange + 1
             ELSE UNCHANGED <<lastChartCall, lastArgs, updatesSinceChange>>
     ELSE /\ timerLeft' = ChartWait - sinceLastCall
          /\ UNCHANGED <<timerId, lastChartCall, lastArgs, updatesSinceChange>>
  /\ UNCHANGED <<myChart, placeholderShown, sinceLastCall, hadChange>>
  /\ UNCHANGED <<pageVars, historyVars, aggVars, navVars>>

\* onUnmounted: the chart is disposed of; the watcher stops with the
\* component, the timer of the debounce stays.
ChartUnmount ==
  /\ myChart = "alive"
  /\ timerId => timerLeft > 0
  /\ myChart' = "disposed"
  /\ UNCHANGED <<lastChartCall, placeholderShown, lastArgs, timerId,
                 timerLeft, sinceLastCall, hadChange, updatesSinceChange>>
  /\ UNCHANGED <<pageVars, historyVars, aggVars, navVars>>

ChartNext ==
  \/ ChartMount
  \/ StoreChangeAny
  \/ ChartTick
  \/ timerExpired
  \/ ChartUnmount

ChartSpec == ChartInit /\ [][ChartNext]_vars

\* The clock advances and the expired timer's callback runs.
ChartLiveSpec ==
  ChartSpec /\ WF_vars(ChartTick) /\ WF_vars(timerExpired)

(* ------------------------------ claims -------------------------------- *)

\* The greatest ratio stored in a map, 0 for the empty map.
GreatestRatio(map) ==
  IF map = <<>> THEN 0
  ELSE CHOOSE m \in {map[i].ratio : i \in 1..Len(map)} :
         \A i \in 1..Len(map) : map[i].ratio <= m

\* The first key in scan order that has the greatest ratio.
FirstGreatest(map) ==
  map[CHOOSE i \in 1..Len(map) :
        /\ map[i].ratio = GreatestRatio(map)
        /\ \A j \in 1..(i - 1) : map[j].ratio < GreatestRatio(map)].key

\* C1, as claimed: a recomputation that was pending when the observed key
\* set was replaced never runs after the replacement.
C1_StaleTimerNeverRuns == staleRan = FALSE

\* C2: a replacement of the observed key set leaves the visibility map empty
\* and no earlier observer running, and every entry of the map was written
\* by an event delivered after the latest replacement.
C2_ReplacementClears ==
  /\ [][(RunSetup \/ Mount) =>
          (visibilityRatios' = <<>> /\ intersectionObservers' = <<>>)]_vars
  /\ [](\A i \in 1..Len(visibilityRatios) :
          lastRatio[visibilityRatios[i].key] = visibilityRatios[i].ratio)

\* A replacement has just removed entries, and the map is empty.
C2_Witness ==
  /\ afterEvent = "replaced"
  /\ clearedByReplace > 0
  /\ visibilityRatios = <<>>
  /\ intersectionObservers = <<>>

\* C3: no burst of events has more than one recomputation; a recomputation
\* runs only after the quiet interval has passed since the latest event;
\* an event less than the quiet interval after the previous one finds that
\* none has run since, a later one finds that exactly one has; the
\* recomputation decides on the map as the latest event left it (when no
\* replacement of the key set came between); and as long as none has run
\* since the latest event, the one recomputation is pending, due exactly
\* the quiet interval after that event.
C3_DebounceCollapses ==
  /\ [](runsSinceEvent <= 1)
  /\ [][FireAny =>
          /\ HadEvent
          /\ sinceEvent >= QuietInterval
          /\ ~replacedSinceEvent =>
               activeMenuKey' = updateActiveMenuByVisibility(
                 activeMenuKey, eventMap, isMiddleScreen, scrollContainerRef)]_vars
  /\ [][(ObserveAny /\ HadEvent) =>
          IF sinceEvent < QuietInterval THEN runsSinceEvent = 0
          ELSE runsSinceEvent = 1]_vars
  /\ []((HadEvent /\ runsSinceEvent = 0) =>
          /\ DOMAIN timers = {updateTimer}
          /\ timers[updateTimer] + sinceEvent = QuietInterval)

\* The one recomputation of a burst of two events has run, on the map the
\* second event left.
C3_Witness ==
  /\ inBurst
  /\ runsSinceEvent = 1
  /\ afterEvent = "quiet"
  /\ visibilityRatios # <<>>
  /\ activeMenuKey = FirstGreatest(visibilityRatios)

\* C4: at most one debounce timer is pending, it is the one updateTimer
\* holds, and a superseded timer is neither pending nor has it run.
C4_SingleFlight ==
  /\ Cardinality(DOMAIN timers) <= 1
  /\ DOMAIN timers \subseteq {updateTimer}
  /\ supersededTimers = {}
  /\ supersededRan = FALSE

\* The second event of a burst has superseded the first one's timer.
C4_Witness == inBurst /\ DOMAIN timers = {2} /\ runsSinceEvent = 0

\* The page is settled after an event: in the scrolling layout, with the
\* container, and nothing but the clock and the timer has acted since.
QuietAfterEvent ==
  /\ HadEvent
  /\ afterEvent = "quiet"
  /\ isMiddleScreen
  /\ scrollContainerRef

\* C5: when the page stays settled after its latest event, a recomputation
\* eventually has run and, from then on, the active key is the first key
\* with the greatest ratio whenever that ratio reaches the threshold.
C5_SettledState ==
  <>[]QuietAfterEvent =>
    <>[](/\ runsSinceEvent >= 1
         /\ GreatestRatio(visibilityRatios) >= ActivationThreshold =>
              activeMenuKey = FirstGreatest(visibilityRatios))

\* Settled with a recomputation run on a map of two entries whose greatest
\* ratio reaches the threshold.
C5_Witness ==
  /\ QuietAfterEvent
  /\ runsSinceEvent = 1
  /\ timers = <<>>
  /\ Len(visibilityRatios) = 2
  /\ GreatestRatio(visibilityRatios) >= ActivationThreshold
  /\ activeMenuKey = FirstGreatest(visibilityRatios)

\* The key the decision rule is to select: none for the empty map and when
\* the greatest ratio is below the threshold, else the first key in scan
\* order that has the greatest ratio.
Decision(map) ==
  IF map = <<>> \/ GreatestRatio(map) < ActivationThreshold THEN NoKey
  ELSE FirstGreatest(map)

Entry(k, r) == [key |-> k, ratio |-> r]

\* C6: the recomputation selects the first key with the greatest ratio, and
\* none for the empty map or a greatest ratio below the threshold; it makes
\* the selected key the active one; {A: 25, B: 35} selects B, {A: 25}
\* none, {A: 50, B: 50} selects A.
C6_DecisionRule ==
  /\ SelectMostVisible(visibilityRatios) = Decision(visibilityRatios)
  /\ (runsSinceEvent = 1 /\ Decision(visibilityRatios) # NoKey) =>
       activeMenuKey = Decision(visibilityRatios)
  /\ (runsSinceEvent = 1 /\ Decision(visibilityRatios) = NoKey) =>
       activeMenuKey = IF splitOverviewPage THEN "generalSettings"
                       ELSE "overviewSettings"
  /\ SelectMostVisible(<<Entry("backendSettings", 25),
                          Entry("proxySettings", 35)>>) = "proxySettings"
  /\ SelectMostVisible(<<Entry("backendSettings", 25)>>) = NoKey
  /\ SelectMostVisible(<<Entry("backendSettings", 50),
                          Entry("proxySettings", 50)>>) = "backendSettings"
  /\ SelectMostVisible(<<>>) = NoKey

\* The recomputation has run on a tie of two keys and the first is active.
C6_Witness ==
  /\ visibilityRatios = <<Entry("proxySettings", 50),
                          Entry("backendSettings", 50)>>
  /\ runsSinceEvent = 1
  /\ activeMenuKey = "proxySettings"

\* C7: the map holds distinct keys with ratios in 1..100; a key is present
\* exactly when its latest event since the last replacement had a ratio
\* above 0, and then with that ratio.
C7_MapTracksLatestEvent ==
  /\ Cardinality(Keys(visibilityRatios)) = Len(visibilityRatios)
  /\ \A i \in 1..Len(visibilityRatios) : visibilityRatios[i].ratio \in 1..100
  /\ \A k \in MenuKeys :
       /\ k \in Keys(visibilityRatios) <=> lastRatio[k] > 0
       /\ k \in Keys(visibilityRatios) =>
            RatioOf(visibilityRatios, k) = lastRatio[k]

\* An event with ratio 0 has just removed a key that was present.
C7_Witness ==
  /\ lastWrite = "delete"
  /\ \E k \in MenuKeys : k \notin Keys(visibilityRatios)
  /\ nextTimerId = 3

\* The records that have a chain, in input order.
Chained(conns) == SelectSeq(conns, LAMBDA c : Len(c.chains) > 0)

\* The names a record yields, in the order source, rule, chain exit (last
\* hop), chain entry (first hop); the position is the layer plus one.
RoleNames(c) ==
  <<sourceIPOf(c), rulePayloadOf(c), chainLastOf(c), chainFirstOf(c)>>

\* The j-th name met over the records ch, and the layer of its role.
EncName(ch, j) == RoleNames(ch[((j - 1) \div 4) + 1])[((j - 1) % 4) + 1]

EncLayer(j) == (j - 1) % 4

EncCount(ch) == 4 * Len(ch)

\* Where a name is met first.
FirstAt(ch, name) ==
  CHOOSE j \in 1..EncCount(ch) :
    /\ EncName(ch, j) = name
    /\ \A i \in 1..(j - 1) : EncName(ch, i) # name

\* The records the pass has handled so far.
Handled ==
  Chained(IF aggPc = "loop" THEN SubSeq(activeConnections, 1, connIndex - 1)
          ELSE IF aggPc = "done" THEN activeConnections
          ELSE <<>>)

\* The id of the output node that carries a name.
IdOf(name) ==
  sankeyData.nodes[CHOOSE i \in 1..Len(sankeyData.nodes) :
                     sankeyData.nodes[i].name = name].id

\* The three ordered id pairs a record yields.
PairsOf(c) ==
  <<<<IdOf(sourceIPOf(c)), IdOf(rulePayloadOf(c))>>,
    <<IdOf(rulePayloadOf(c)), IdOf(chainLastOf(c))>>,
    <<IdOf(chainLastOf(c)), IdOf(chainFirstOf(c))>>>>

\* How often the records ch yield a pair.
Yielded(ch, pair) ==
  Cardinality({<<i, j>> \in (1..Len(ch)) \X (1..3) : PairsOf(ch[i])[j] = pair})

RECURSIVE SumValues(_, _)
SumValues(links, i) ==
  IF i > Len(links) THEN 0 ELSE links[i].value + SumValues(links, i + 1)

\* The keys of linkMap the record at connIndex yields, by the ids the step
\* leaves in nodeMap.
StepKeys ==
  LET c == activeConnections[connIndex]
  IN IF Len(c.chains) = 0 THEN {}
     ELSE {linkKey(Get(nodeMap', sourceIPOf(c)), Get(nodeMap', rulePayloadOf(c))),
           linkKey(Get(nodeMap', rulePayloadOf(c)), Get(nodeMap', chainLastOf(c))),
           linkKey(Get(nodeMap', chainLastOf(c)), Get(nodeMap', chainFirstOf(c)))}

\* C8: the computed links hold each ordered id pair once, with the number
\* of times the records with a chain yield it; the weights sum to three
\* per such record; and a record leaves the counts of the pairs it does not
\* yield as they were.
C8_WeightAccumulation ==
  /\ [](aggPc = "done" =>
          LET links == sankeyData.links
              ch == Chained(activeConnections)
          IN /\ \A i, j \in 1..Len(links) :
                  (links[i].source = links[j].source /\
                   links[i].target = links[j].target) => i = j
             /\ \A i \in 1..Len(links) :
                  links[i].value =
                    Yielded(ch, <<links[i].source, links[i].target>>)
             /\ \A i \in 1..Len(ch), j \in 1..3 :
                  \E k \in 1..Len(links) :
                    <<links[k].source, links[k].target>> = PairsOf(ch[i])[j]
             /\ SumValues(links, 1) = 3 * Len(ch))
  /\ [][AggRecord =>
          \A i \in 1..Len(linkMap) :
            /\ linkMap'[i][1] = linkMap[i][1]
            /\ linkMap[i][1] \notin StepKeys => linkMap'[i] = linkMap[i]]_vars

\* Two records have yielded the same source-to-rule pair, which has weight
\* 2, and another pair has weight 1.
C8_Witness ==
  /\ aggPc = "done"
  /\ Len(Chained(activeConnections)) = 2
  /\ sourceIPOf(activeConnections[1]) = sourceIPOf(activeConnections[2])
  /\ rulePayloadOf(activeConnections[1]) = rulePayloadOf(activeConnections[2])
  /\ \E i, j \in 1..Len(sankeyData.links) :
       /\ sankeyData.links[i].source = IdOf(sourceIPOf(activeConnections[1]))
       /\ sankeyData.links[i].target = IdOf(rulePayloadOf(activeConnections[1]))
       /\ sankeyData.links[i].value = 2
       /\ sankeyData.links[j].value = 1

\* C9: the computed nodes have pairwise distinct names, which are exactly
\* the names the records with a chain yield; the node at position i has id
\* i - 1; and the nodes stand in the order in which their names are first
\* met (records in input order, roles source, rule, chain exit, chain entry).
C9_NodeRegistry ==
  aggPc = "done" =>
    LET nodes == sankeyData.nodes
        ch == Chained(activeConnections)
    IN /\ \A i, j \in 1..Len(nodes) : nodes[i].name = nodes[j].name => i = j
       /\ {nodes[i].name : i \in 1..Len(nodes)} =
            {EncName(ch, j) : j \in 1..EncCount(ch)}
       /\ \A i \in 1..Len(nodes) : nodes[i].id = i - 1
       /\ \A i, j \in 1..Len(nodes) :
            i < j => FirstAt(ch, nodes[i].name) < FirstAt(ch, nodes[j].name)

\* Two records with a chain share names and yield fewer than eight nodes.
C9_Witness ==
  /\ aggPc = "done"
  /\ Len(Chained(activeConnections)) = 2
  /\ Len(sankeyData.nodes) = 5
  /\ sankeyData.nodes[5].id = 4

\* C10: a step of the pass leaves the layer of every name that has one as
\* it was; the layer of a name is the layer of the role in which the name
\* was met first; a name has one node and one layer however often and in
\* whatever roles it is met; and the node's colour is its layer's.
C10_LayerStability ==
  /\ [][\A i \in 1..Len(layerMap) : layerMap'[i] = layerMap[i]]_vars
  /\ [](/\ Len(layerMap) = Len(nodeMap)
         /\ Len(nodeMap) = nodeIndex
         /\ Len(nodeMap) =
              Cardinality({EncName(Handled, j) : j \in 1..EncCount(Handled)})
         /\ \A i \in 1..Len(nodeMap) :
              /\ layerMap[i][1] = nodeMap[i][1]
              /\ layerMap[i][2] = EncLayer(FirstAt(Handled, nodeMap[i][1])))
  /\ [](aggPc = "done" =>
          \A i \in 1..Len(sankeyData.nodes) :
            sankeyData.nodes[i].color =
              layerColors[EncLayer(FirstAt(Handled, sankeyData.nodes[i].name)) + 1])

\* A name met first as the rule label of the first record is the chain
\* entry of the second, and has the one node of layer 1.
C10_Witness ==
  /\ aggPc = "done"
  /\ Len(activeConnections) = 2
  /\ Len(Chained(activeConnections)) = 2
  /\ LET name == rulePayloadOf(activeConnections[1])
     IN /\ sourceIPOf(activeConnections[1]) # name
        /\ chainFirstOf(activeConnections[2]) = name
        /\ Get(layerMap, name) = 1
        /\ Cardinality({i \in 1..Len(sankeyData.nodes) :
                          sankeyData.nodes[i].name = name}) = 1

\* C11: the computed graph has no nodes and no links exactly when the store
\* holds no list, an empty list or only records without a chain; and the
\* step for a record without a chain leaves the maps and the counter as they
\* were, whatever the other records are.
C11_EmptyInput ==
  /\ [](aggPc = "done" =>
          /\ (sankeyData = EmptyData) <=>
               (connectionsAbsent \/ Chained(activeConnections) = <<>>)
          /\ (sankeyData.nodes = <<>>) <=> (sankeyData.links = <<>>))
  /\ [][(AggRecord /\ Len(activeConnections[connIndex].chains) = 0) =>
          UNCHANGED <<nodeMap, layerMap, nodeIndex, linkMap>>]_vars

\* A record without a chain came after a record with one: the graph is that
\* of the one record.
C11_Witness ==
  /\ aggPc = "done"
  /\ Len(activeConnections) = 2
  /\ Len(activeConnections[1].chains) = 2
  /\ Len(activeConnections[2].chains) = 0
  /\ Len(sankeyData.links) = 3

\* A name is one of the names the records ch yield.
Occurs(ch, name) == \E j \in 1..EncCount(ch) : EncName(ch, j) = name

\* The labels of the roles source, rule, last hop, first hop, with the last
\* hop taken for the chain exit and the first hop for the chain entry.
ExitLastLabels ==
  <<"sourceIPAddress", "ruleMatch", "proxyChainExit", "proxyChainEntry">>

\* The same, with the last hop taken for the chain entry and the first hop
\* for the chain exit.
EntryLastLabels ==
  <<"sourceIPAddress", "ruleMatch", "proxyChainEntry", "proxyChainExit">>

\* C12 as stated: the tooltip of a name that the records with a chain yield
\* carries the label of the role in which the name is met first, records in
\* input order, roles in the order source, rule, last hop, first hop; the
\* last hop is labelled chain exit and the first hop chain entry.
C12_LastHopLabelledExit ==
  (tooltip # <<>> /\ Occurs(Chained(activeConnections), tooltip.name)) =>
    tooltip.nodeType =
      ExitLastLabels[EncLayer(FirstAt(Chained(activeConnections),
                                      tooltip.name)) + 1]

\* C12 as amended: the same, with the last hop labelled chain entry and
\* the first hop chain exit.
C12_ReverseLookup ==
  (tooltip # <<>> /\ Occurs(Chained(activeConnections), tooltip.name)) =>
    tooltip.nodeType =
      EntryLastLabels[EncLayer(FirstAt(Chained(activeConnections),
                                       tooltip.name)) + 1]

\* The hovered name is the source of a record without a chain and the last
\* of two hops of the record after it: the tooltip says chain entry.
C12_Witness ==
  /\ tooltip # <<>>
  /\ Len(activeConnections) = 2
  /\ Len(activeConnections[1].chains) = 0
  /\ sourceIPOf(activeConnections[1]) = tooltip.name
  /\ Len(activeConnections[2].chains) = 2
  /\ chainLastOf(activeConnections[2]) = tooltip.name
  /\ sourceIPOf(activeConnections[2]) # tooltip.name
  /\ rulePayloadOf(activeConnections[2]) # tooltip.name
  /\ tooltip.nodeType = "proxyChainEntry"

\* What getNodeTypeName can return.
NodeTypeNames ==
  {"sourceIPAddress", "ruleMatch", "proxyChainEntry", "proxyChainExit",
   "unknown"}

\* C13: the tooltip of a name says unknown exactly when no record with a
\* chain has the name as its source address (Unknown when it has none), rule
\* label, last hop or first hop, also when the store holds no list or an
\* empty one; and the lookup always returns one of its five labels.
C13_LookupFallback ==
  tooltip # <<>> =>
    /\ tooltip.nodeType \in NodeTypeNames
    /\ (tooltip.nodeType = "unknown") <=>
         ~\E i \in 1..Len(activeConnections) :
            /\ Len(activeConnections[i].chains) > 0
            /\ tooltip.name \in
                 {IF activeConnections[i].sourceIP = "" THEN "Unknown"
                  ELSE activeConnections[i].sourceIP,
                  rulePayloadOf(activeConnections[i]),
                  activeConnections[i].chains[Len(activeConnections[i].chains)],
                  activeConnections[i].chains[1]}

\* The hovered name is the source of a record without a chain only; the
\* record after it has a chain and other names: the tooltip says unknown.
C13_Witness ==
  /\ tooltip # <<>>
  /\ tooltip.nodeType = "unknown"
  /\ Len(activeConnections) = 2
  /\ Len(activeConnections[1].chains) = 0
  /\ sourceIPOf(activeConnections[1]) = tooltip.name
  /\ Len(activeConnections[2].chains) > 0

\* The place of a key in a list of distinct keys, counted from 0.
PlaceOf(items, key) == CHOOSE i \in 0..(Len(items) - 1) : items[i + 1] = key

\* The key at a place counted from 0.
KeyAt(items, i) == items[i + 1]

\* The latest change of the swipe direction met no dialog, no focused input
\* and no selection (primed: the change is the step's).
Unhindered(s) ==
  /\ ~s.modalOpen
  /\ s.activeEl \notin {"INPUT", "TEXTAREA"}
  /\ ~s.textSelected

\* C14: in the scrolling layout, a change of the swipe direction to left
\* that nothing hinders moves the active key from place i of the n menu
\* keys to place (i + 1) mod n, one to right to place (i - 1) mod n; so left
\* from the last key gives the first and right from the first gives the
\* last; and previous after next, or next after previous, gives the key
\* they started from.
C14_CycleWrap ==
  /\ [][(swipe' # swipe /\ isMiddleScreen /\ Unhindered(swipe')) =>
          LET items == menuItems(splitOverviewPage)
              n == Len(items)
              i == PlaceOf(items, activeMenuKey)
          IN /\ swipe'.direction = "left" =>
                  /\ activeMenuKey' = KeyAt(items, (i + 1) % n)
                  /\ i = n - 1 => activeMenuKey' = items[1]
             /\ swipe'.direction = "right" =>
                  /\ activeMenuKey' = KeyAt(items, (i + n - 1) % n)
                  /\ i = 0 => activeMenuKey' = items[n]]_vars
  /\ [](LET items == menuItems(splitOverviewPage)
        IN /\ getPrevMenuKey(items, getNextMenuKey(items, activeMenuKey))
                = activeMenuKey
           /\ getNextMenuKey(items, getPrevMenuKey(items, activeMenuKey))
                = activeMenuKey)

\* A swipe to the left from the last of the keys has made the first active.
C14_Witness ==
  /\ swipe # <<>>
  /\ swipe.direction = "left"
  /\ isMiddleScreen
  /\ splitOverviewPage
  /\ swipe.from = "overviewSettings"
  /\ activeMenuKey = "generalSettings"
  /\ Unhindered(swipe)

\* C18: a change of the swipe direction leaves the active key as it was
\* when the page is not in the scrolling layout, when a modal dialog is
\* open, when an input or a textarea has the focus, or when text is
\* selected; it changes the active key only when none of these holds and
\* the direction is left or right, and then it does change it.
C18_SwipeGuard ==
  [][swipe' # swipe =>
       /\ (\/ ~isMiddleScreen
           \/ swipe'.modalOpen
           \/ swipe'.activeEl = "INPUT"
           \/ swipe'.activeEl = "TEXTAREA"
           \/ swipe'.textSelected) => activeMenuKey' = activeMenuKey
       /\ activeMenuKey' # activeMenuKey <=>
            /\ swipe'.direction \in {"left", "right"}
            /\ isMiddleScreen
            /\ ~swipe'.modalOpen
            /\ swipe'.activeEl \notin {"INPUT", "TEXTAREA"}
            /\ ~swipe'.textSelected]_vars

\* A swipe to the left in the scrolling layout, with text selected and
\* nothing else in the way, has left the active key as it was.
C18_Witness ==
  /\ swipe # <<>>
  /\ swipe.direction = "left"
  /\ isMiddleScreen
  /\ swipe.textSelected
  /\ ~swipe.modalOpen
  /\ swipe.activeEl = "BODY"
  /\ activeMenuKey = swipe.from

\* C15: a recomputation that finds the map empty, or no ratio of at least
\* the threshold in it, or the page not in the scrolling layout, or no
\* scroll container, leaves the active key as it was; and the active key is
\* always one of the menu keys, never none.
C15_NoSelectionFrame ==
  /\ [][FireAny =>
          ((\/ visibilityRatios = <<>>
            \/ GreatestRatio(visibilityRatios) < ActivationThreshold
            \/ ~isMiddleScreen
            \/ ~scrollContainerRef) => activeMenuKey' = activeMenuKey)]_vars
  /\ [](activeMenuKey \in MenuKeys)

\* The latest event left one region a quarter visible, not the active one;
\* the recomputation has run and the active key is the one it was.
C15_Witness ==
  /\ runsSinceEvent = 1
  /\ afterEvent = "quiet"
  /\ isMiddleScreen
  /\ scrollContainerRef
  /\ Len(visibilityRatios) = 1
  /\ visibilityRatios[1].ratio = 25
  /\ visibilityRatios[1].key # activeMenuKey
  /\ timers = <<>>

\* The role a label of getNodeTypeName stands for: the source 0, the rule 1,
\* the last hop 2, the first hop 3, and -1 for unknown.
RoleOfLabel(label) ==
  CASE label = "sourceIPAddress" -> 0
    [] label = "ruleMatch" -> 1
    [] label = "proxyChainEntry" -> 2
    [] label = "proxyChainExit" -> 3
    [] OTHER -> -1

\* C17: when the tooltip is asked for the name of a node of the computed
\* graph, on the list the graph was computed from, the role of the label it
\* gets is the layer the pass recorded for the name, and the node has that
\* layer's colour, also for a name that the records yield in several roles.
C17_LookupAgreesWithLayer ==
  (aggPc = "done" /\ tooltip # <<>>) =>
    \A i \in 1..Len(sankeyData.nodes) :
      sankeyData.nodes[i].name = tooltip.name =>
        /\ RoleOfLabel(tooltip.nodeType) = Get(layerMap, tooltip.name)
        /\ sankeyData.nodes[i].color =
             layerColors[RoleOfLabel(tooltip.nodeType) + 1]

\* The hovered name is the rule label and the first of two hops of the one
\* record: the node has layer 1 and the tooltip says rule match.
C17_Witness ==
  /\ aggPc = "done"
  /\ tooltip # <<>>
  /\ Len(activeConnections) = 1
  /\ Len(activeConnections[1].chains) = 2
  /\ rulePayloadOf(activeConnections[1]) = tooltip.name
  /\ chainFirstOf(activeConnections[1]) = tooltip.name
  /\ sourceIPOf(activeConnections[1]) # tooltip.name
  /\ Get(layerMap, tooltip.name) = 1
  /\ tooltip.nodeType = "ruleMatch"

\* The call the chart is to get for a graph: cleared for one without
\* nodes, else given its nodes and links.
CallFor(graph) ==
  IF graph.nodes = <<>> THEN [method |-> "clear"]
  ELSE [method |-> "setOption(series)", data |-> graph.nodes,
        links |-> graph.links]

\* C16: after a change of the graph, updateChartData runs at most once
\* until the next change; it runs when the wait of 300 has passed since the
\* latest change, not before, and makes the call for the graph as it then
\* is: clear for no nodes, else the nodes and links; nothing else calls the
\* chart after onMounted; until it runs, the debounce's timer is set, keeps
\* the latest graph and expires no later than the wait after the latest
\* change; the placeholder is rendered exactly when the graph has no
\* nodes; and when the changes stop, the one update has run in the end and
\* the chart's latest call is the one for the latest graph.
C16_DebouncedChartUpdate ==
  /\ [](updatesSinceChange <= 1)
  /\ [][updatesSinceChange' = updatesSinceChange + 1 =>
          /\ hadChange
          /\ sinceLastCall = ChartWait
          /\ lastChartCall' = CallFor(sankeyData)]_vars
  /\ [][lastChartCall' # lastChartCall =>
          (myChart = "none" \/ updatesSinceChange' = updatesSinceChange + 1)]_vars
  /\ []((hadChange /\ updatesSinceChange = 0) =>
          /\ timerId
          /\ lastArgs = sankeyData
          /\ timerLeft <= ChartWait - sinceLastCall)
  /\ [](placeholderShown <=> Len(sankeyData.nodes) = 0)
  /\ (<>[][~StoreChangeAny]_vars =>
        <>[](hadChange =>
              /\ updatesSinceChange = 1
              /\ ~timerId
              /\ lastChartCall = CallFor(sankeyData)))

\* The one update after the latest change has run on the mounted chart and
\* has given it the four nodes and three links of the latest graph; the
\* placeholder is not rendered.
C16_Witness ==
  /\ myChart = "alive"
  /\ updatesSinceChange = 1
  /\ ~timerId
  /\ Len(sankeyData.nodes) = 4
  /\ lastChartCall = [method |-> "setOption(series)",
                      data |-> sankeyData.nodes, links |-> sankeyData.links]
  /\ Len(lastChartCall.links) = 3
  /\ ~placeholderShown

====
